---- MODULE Spec2Model ----
(***************************************************************************)
(* pg_rand_ext: exponential, gaussian and zipfian random bigints as        *)
(* SQL-callable functions (src/pg_rand_ext.c).                             *)
(*                                                                         *)
(* The state is the static base_random_sequence, the position of the       *)
(* running SQL call and its arguments.  Each call runs                     *)
(*   random_X: argument extraction, (zipfian only) the parameter check,    *)
(*             initRandomState()                                           *)
(*   getXRand: the sampler, one step per draw-and-test iteration.          *)
(* elog(ERROR) leaves the function at once (pc = "failed").                *)
(* Assert() is compiled out (MIN_GAUSSIAN_PARAM is defined nowhere, so the *)
(* file only builds without assertion checking) and is not modelled.       *)
(* PostgreSQL and its extensions are built with -fwrapv: int64 arithmetic  *)
(* wraps.  int64 is modelled at IntBits bits.                              *)
(***************************************************************************)
EXTENDS Integers, Sequences, FiniteSets, TLC

VARIABLES
    xseed,   \* base_random_sequence.xseed[0..2]
    pc,      \* "idle", "sampling", "drawn", "returned", "failed"
    fn,      \* the SQL function being run
    lb, ub,  \* PG_GETARG_INT64(0), PG_GETARG_INT64(1)
    param,   \* PG_GETARG_FLOAT8(2), in thousandths
    iseed,   \* initRandomState's iseed: the set of its bits that are 1
    erand,   \* what pg_erand48 returned in the sampler's last iteration
    draws,   \* calls of pg_erand48 made by the running call (saturating)
    result,  \* the bigint returned
    err      \* the message of elog(ERROR)

vars == <<xseed, pc, fn, lb, ub, param, iseed, erand, draws, result, err>>

(***************************************************************************)
(* double.  A C double is modelled as a binary floating-point number       *)
(* m * 2^e with a significand of MantissaBits bits, rounded to nearest,    *)
(* ties to even, with infinities and NaN.  IEEE binary64 has 53 bits; the  *)
(* model keeps 15 so that every product fits 32-bit integer arithmetic.    *)
(* libm (exp, log, sqrt, sin, pow, floor) is computed on this format.      *)
(***************************************************************************)
MantissaBits == 15
MaxExponent == 1024

Pow2(n) == 2 ^ n
Abs(i) == IF i < 0 THEN -i ELSE i
Sign(i) == IF i < 0 THEN -1 ELSE 1

Zero == [k |-> "fin", m |-> 0, e |-> 0]
NaN == [k |-> "nan", m |-> 0, e |-> 0]
Inf(s) == [k |-> "inf", m |-> s, e |-> 0]
\* 1.0, 0.5, M_LN2, M_PI and M_PI / 2 at 15 bits
One == [k |-> "fin", m |-> 16384, e |-> -14]
Half == [k |-> "fin", m |-> 16384, e |-> -15]
Ln2 == [k |-> "fin", m |-> 22713, e |-> -15]
M_PI == [k |-> "fin", m |-> 25736, e |-> -13]
HalfPi == [k |-> "fin", m |-> 25736, e |-> -14]

BitLen(a) == CHOOSE n \in 0..31 : (n = 0 \/ Pow2(n - 1) <= a) /\ (n = 31 \/ a < Pow2(n))

\* the quotient q of a shift with remainder r, rounded to nearest, ties to even
RoundUp(q, r, half) == IF r > half \/ (r = half /\ q % 2 = 1) THEN q + 1 ELSE q
RoundShift(a, sh) == RoundUp(a \div Pow2(sh), a % Pow2(sh), Pow2(sh - 1))

\* sg * q * 2^ee, q of MantissaBits bits; overflow gives an infinity
Pack(sg, q, ee) ==
    IF ee + MantissaBits > MaxExponent THEN Inf(sg)
    ELSE IF ee + MantissaBits < -MaxExponent THEN Zero
    ELSE [k |-> "fin", m |-> sg * q, e |-> ee]

NormCarry(sg, q, ee) ==
    IF q = Pow2(MantissaBits) THEN Pack(sg, Pow2(MantissaBits - 1), ee + 1)
    ELSE Pack(sg, q, ee)

NormShift(sg, a, e, sh) ==
    NormCarry(sg, IF sh > 0 THEN RoundShift(a, sh) ELSE a * Pow2(-sh), e + sh)

\* the double nearest to m * 2^e
Norm(m, e) ==
    IF m = 0 THEN Zero
    ELSE NormShift(Sign(m), Abs(m), e, BitLen(Abs(m)) - MantissaBits)

\* (double) of an integer
FromInt(i) == Norm(i, 0)

\* a quotient q with remainder r, doubled, its last bit recording r # 0
Sticky(q, r) == IF r = 0 THEN 2 * q ELSE 2 * q + 1

MilliUp(sg, a, up) ==
    Norm(sg * Sticky((a * Pow2(up)) \div 1000, (a * Pow2(up)) % 1000), -up - 1)

\* the float8 n / 1000
Milli(n) == IF n = 0 THEN Zero ELSE MilliUp(Sign(n), Abs(n), 30 - BitLen(Abs(n)))

DNeg(a) == IF a.k = "nan" THEN a ELSE [a EXCEPT !.m = -a.m]
DSign(a) == IF a.m < 0 THEN -1 ELSE 1
IsZero(a) == a.k = "fin" /\ a.m = 0

\* a * b
DMul(a, b) ==
    IF a.k = "nan" \/ b.k = "nan" THEN NaN
    ELSE IF a.k = "inf" \/ b.k = "inf"
         THEN IF IsZero(a) \/ IsZero(b) THEN NaN ELSE Inf(DSign(a) * DSign(b))
    ELSE Norm(a.m * b.m, a.e + b.e)

DivFin(sg, num, den, e) == Norm(sg * Sticky(num \div den, num % den), e)

\* a / b
DDiv(a, b) ==
    IF a.k = "nan" \/ b.k = "nan" THEN NaN
    ELSE IF a.k = "inf" THEN (IF b.k = "inf" THEN NaN ELSE Inf(DSign(a) * DSign(b)))
    ELSE IF b.k = "inf" THEN Zero
    ELSE IF b.m = 0 THEN (IF a.m = 0 THEN NaN ELSE Inf(DSign(a)))
    ELSE IF a.m = 0 THEN Zero
    ELSE DivFin(DSign(a) * DSign(b), Abs(a.m) * Pow2(16), Abs(b.m), a.e - b.e - 17)

\* what is left of the smaller summand ay, d binary places below the larger
Aligned(ay, d) ==
    IF d <= 15 THEN ay * Pow2(15 - d)
    ELSE IF d >= 30 THEN 1
    ELSE IF ay % Pow2(d - 15) = 0 THEN ay \div Pow2(d - 15)
    ELSE (ay \div Pow2(d - 15)) + 1

\* x + y for finite nonzero x and y, x.e >= y.e
AddAligned(x, y) ==
    Norm(x.m * Pow2(15) + Sign(y.m) * Aligned(Abs(y.m), x.e - y.e), x.e - 15)

\* a + b
DAdd(a, b) ==
    IF a.k = "nan" \/ b.k = "nan" THEN NaN
    ELSE IF a.k = "inf"
         THEN (IF b.k = "inf" /\ b.m # a.m THEN NaN ELSE a)
    ELSE IF b.k = "inf" THEN b
    ELSE IF a.m = 0 THEN b
    ELSE IF b.m = 0 THEN a
    ELSE AddAligned(IF a.e >= b.e THEN a ELSE b, IF a.e >= b.e THEN b ELSE a)

\* a - b
DSub(a, b) == DAdd(a, DNeg(b))

\* a < b
DLt(a, b) ==
    IF a.k = "nan" \/ b.k = "nan" THEN FALSE
    ELSE IF a.k = "inf" THEN a.m < 0 /\ ~(b.k = "inf" /\ b.m < 0)
    ELSE IF b.k = "inf" THEN b.m > 0
    ELSE IF a.m = 0 THEN b.m > 0
    ELSE IF b.m = 0 THEN a.m < 0
    ELSE IF DSign(a) # DSign(b) THEN a.m < 0
    ELSE IF a.m > 0 THEN a.e < b.e \/ (a.e = b.e /\ a.m < b.m)
    ELSE a.e > b.e \/ (a.e = b.e /\ a.m < b.m)

\* a == b
DEq(a, b) == a.k # "nan" /\ b.k # "nan" /\ a = b

\* a <= b, a >= b
DLe(a, b) == DLt(a, b) \/ DEq(a, b)
DGe(a, b) == DLe(b, a)

\* floor(3)
floor(a) ==
    IF a.k # "fin" \/ a.e >= 0 THEN a
    ELSE IF -a.e >= MantissaBits THEN (IF a.m >= 0 THEN Zero ELSE FromInt(-1))
    ELSE FromInt(a.m \div Pow2(-a.e))

\* the integer part of a finite double, toward zero
IntOf(a) ==
    IF a.e >= 0 THEN a.m * Pow2(a.e)
    ELSE IF -a.e > MantissaBits THEN 0
    ELSE Sign(a.m) * (Abs(a.m) \div Pow2(-a.e))

\* the integer nearest to a
NearInt(a) == IntOf(floor(DAdd(a, Half)))

RECURSIVE ISqrtIn(_, _, _)
ISqrtIn(n, lo, hi) ==
    IF lo = hi THEN lo
    ELSE IF ((lo + hi + 1) \div 2) * ((lo + hi + 1) \div 2) <= n
         THEN ISqrtIn(n, (lo + hi + 1) \div 2, hi)
         ELSE ISqrtIn(n, lo, ((lo + hi + 1) \div 2) - 1)

SqrtOf(n, r, e) == Norm(IF r * r = n THEN 2 * r ELSE 2 * r + 1, e)
SqrtUp(a, up) ==
    SqrtOf(a.m * Pow2(up), ISqrtIn(a.m * Pow2(up), 0, 32767), ((a.e - up) \div 2) - 1)

\* sqrt(3)
sqrt(a) ==
    IF a.k = "nan" THEN NaN
    ELSE IF a.m < 0 THEN NaN
    ELSE IF a.k = "inf" \/ a.m = 0 THEN a
    ELSE SqrtUp(a, IF a.e % 2 = 0 THEN 14 ELSE 15)

\* 2 * atanh(w) = 2w (1 + w^2/3 + w^4/5 + w^6/7)
Atanh2(w, w2) ==
    DMul(DMul(FromInt(2), w),
         DAdd(One, DMul(w2,
              DAdd(DDiv(One, FromInt(3)), DMul(w2,
                   DAdd(DDiv(One, FromInt(5)), DDiv(w2, FromInt(7))))))))

LogW(w, ex) == DAdd(DMul(FromInt(ex), Ln2), Atanh2(w, DMul(w, w)))

\* log of g * 2^ex, g in [0.707, 1.414)
LogG(g, ex) == LogW(DDiv(DSub(g, One), DAdd(g, One)), ex)

\* log(3)
log(a) ==
    IF a.k = "nan" THEN NaN
    ELSE IF a.k = "inf" THEN (IF a.m > 0 THEN a ELSE NaN)
    ELSE IF a.m = 0 THEN Inf(-1)
    ELSE IF a.m < 0 THEN NaN
    ELSE IF a.m >= 23170
         THEN LogG([k |-> "fin", m |-> a.m, e |-> -MantissaBits], a.e + MantissaBits)
         ELSE LogG([k |-> "fin", m |-> a.m, e |-> 1 - MantissaBits], a.e + MantissaBits - 1)

\* e^r = 1 + r(1 + r/2(1 + r/3(1 + r/4(1 + r/5(1 + r/6)))))
ExpPoly(r) ==
    DAdd(One, DMul(r,
    DAdd(One, DMul(DDiv(r, FromInt(2)),
    DAdd(One, DMul(DDiv(r, FromInt(3)),
    DAdd(One, DMul(DDiv(r, FromInt(4)),
    DAdd(One, DMul(DDiv(r, FromInt(5)),
    DAdd(One, DDiv(r, FromInt(6)))))))))))))

\* f * 2^n
Ldexp(f, n) == IF f.k # "fin" THEN f ELSE Norm(f.m, f.e + n)

ExpK(a, n) == Ldexp(ExpPoly(DSub(a, DMul(FromInt(n), Ln2))), n)

\* exp(3)
exp(a) ==
    IF a.k = "nan" THEN NaN
    ELSE IF a.k = "inf" THEN (IF a.m > 0 THEN a ELSE Zero)
    ELSE IF DLt(FromInt(710), a) THEN Inf(1)
    ELSE IF DLt(a, FromInt(-745)) THEN Zero
    ELSE ExpK(a, NearInt(DDiv(a, Ln2)))

\* pow(3), for a base that is not negative
pow(a, b) ==
    IF IsZero(b) THEN One
    ELSE IF DEq(a, One) THEN One
    ELSE IF a.k = "nan" \/ b.k = "nan" THEN NaN
    ELSE IF IsZero(a) THEN (IF DSign(b) < 0 THEN Inf(1) ELSE Zero)
    ELSE IF a.m < 0 THEN NaN
    ELSE exp(DMul(b, log(a)))

\* sin r = r - r^3 (1/6 - r^2 (1/120 - r^2/5040))
SinPoly(r, r2) ==
    DSub(r, DMul(DMul(r, r2),
         DSub(DDiv(One, FromInt(6)),
              DMul(r2, DSub(DDiv(One, FromInt(120)), DDiv(r2, FromInt(5040)))))))

\* cos r = 1 - r^2 (1/2 - r^2 (1/24 - r^2/720))
CosPoly(r2) ==
    DSub(One, DMul(r2,
         DSub(Half,
              DMul(r2, DSub(DDiv(One, FromInt(24)), DDiv(r2, FromInt(720)))))))

SinQuadrant(r, r2, qm) ==
    CASE qm = 0 -> SinPoly(r, r2)
      [] qm = 1 -> CosPoly(r2)
      [] qm = 2 -> DNeg(SinPoly(r, r2))
      [] OTHER -> DNeg(CosPoly(r2))

SinReduced(r, qm) == SinQuadrant(r, DMul(r, r), qm)

SinQ(a, q) == SinReduced(DSub(a, DMul(FromInt(q), HalfPi)), q % 4)

\* sin(3)
sin(a) == IF a.k # "fin" THEN NaN ELSE SinQ(a, NearInt(DDiv(a, HalfPi)))

(***************************************************************************)
(* Bounds of the model and the sampled inputs                              *)
(***************************************************************************)
IntBits == 17
MaxDraws == 3

\* int64, at IntBits bits
IntMin == -(2 ^ (IntBits - 1))
IntMax == 2 ^ (IntBits - 1) - 1
Wrap64(i) == ((i - IntMin) % (2 ^ IntBits)) + IntMin

\* the int64 arguments: the ends of int64, and -3 with 41947, a range of
\* 41951 values: more than the significand holds, as a range above 2^53 is
\* for a double; the double nearest to 41951 is 41952
IntSamples == {IntMin, -3, 41947, IntMax}
\* the float8 argument, in thousandths
ParamSamples == {-1000, 0, 1, 1000, 1001, 1500, 1999, 2000, 1000000, 1000001}
\* values of pg_erand48, in [0, 1): 0, 5/1024, 1/8, 1/2, 7/8 and the last one
\* below 1
\* (the grid of pg_erand48 is 5 bits coarser than the significand: 2^-48
\*  against 53 bits, here 2^-10 against 15 bits)
Uniforms == {Norm(k, -10) : k \in {0, 5, 128, 512, 896, 1023}}
\* what pg_strong_random delivers: 0, 2^48, 2^64 - 1 and two mixed values
EntropySamples == {{}, {48}, {i \in 0..63 : TRUE}, {0, 17, 34, 63}, {15, 16, 47}}
\* states pg_erand48 leaves in xseed (its successor of the zero state, and
\* the all-ones state)
Erand48States == {<<11, 0, 0>>, <<65535, 65535, 65535>>}

NoValue == "none"
NoSeed == {-1}
NoError == "none"
SeedingFailed == "could not generate random seed"
InvalidParameter == "zipfian parameter must be in range"

(***************************************************************************)
(* Program constants, in thousandths                                       *)
(***************************************************************************)
MAX_ZIPFIAN_PARAM == 1000000
MIN_ZIPFIAN_PARAM == 1001

(***************************************************************************)
(* initRandomState: the words cut from iseed                               *)
(***************************************************************************)
\* iseed >> n
ShiftRight(e, n) == {i - n : i \in {j \in e : j >= n}}
\* e & 0xFFFF
And0xFFFF(e) == e \cap (0..15)
\* the value stored in an unsigned short
UShort(e) ==
    LET f[i \in 0..16] == IF i = 16 THEN 0
                          ELSE (IF i \in e THEN 2 ^ i ELSE 0) + f[i + 1]
    IN  f[0]

\* the third word cut at bit 48 instead of bit 32
SeedWordsShift48(e) ==
    << UShort(And0xFFFF(e)),
       UShort(And0xFFFF(ShiftRight(e, 16))),
       UShort(And0xFFFF(ShiftRight(e, 48))) >>

SeedWords(e) ==
    << UShort(And0xFFFF(e)),
       UShort(And0xFFFF(ShiftRight(e, 16))),
       UShort(And0xFFFF(ShiftRight(e, 32))) >>

(***************************************************************************)
(* The samplers' arithmetic                                                *)
(***************************************************************************)
\* what the conversion instructions of the builds leave for a double that
\* has no int64: the indefinite value INT64_MIN (x86-64), the saturated
\* value, 0 or an end of the range for a NaN (AArch64, PPC64, RISC-V)
CastUndefined == {IntMin, 0, IntMax}

\* (int64) of a double: truncation; undefined for a NaN, an infinity or a
\* value out of range
CastInt64(a) ==
    IF a.k # "fin" THEN CastUndefined
    ELSE IF a.m = 0 THEN {0}
    ELSE IF a.e + MantissaBits > IntBits THEN CastUndefined
    ELSE IF IntOf(a) < IntMin \/ IntOf(a) > IntMax THEN CastUndefined
    ELSE {IntOf(a)}

\* min + (int64) ((max - min + 1) * rand)
RangeMap(min, max, rand) ==
    {Wrap64(min + c) : c \in CastInt64(DMul(FromInt(Wrap64(max - min + 1)), rand))}

\* rand = -log(cut + (1.0 - cut) * uniform) / parameter
ExponentialCut(cut, uniform, parameter) ==
    DDiv(DNeg(log(DAdd(cut, DMul(DSub(One, cut), uniform)))), parameter)

\* getExponentialRand's rand, d being what pg_erand48 returned
ExponentialRand(d, parameter) ==
    ExponentialCut(exp(DNeg(parameter)), DSub(One, d), parameter)

\* stdev = var_sqrt * sin(2.0 * M_PI * rand2), var_sqrt = sqrt(-2.0 * log(rand1))
BoxMullerBasic(rand1, rand2) ==
    DMul(sqrt(DMul(FromInt(-2), log(rand1))),
         sin(DMul(DMul(FromInt(2), M_PI), rand2)))

\* getGaussianRand's stdev after one iteration
BoxMuller(d1, d2) == BoxMullerBasic(DSub(One, d1), DSub(One, d2))

\* the loop condition without its lower side
GaussianRetryUpperOnly(stdev, parameter) == DGe(stdev, parameter)

\* while (stdev < -parameter || stdev >= parameter)
GaussianRetry(stdev, parameter) ==
    DLt(stdev, DNeg(parameter)) \/ DGe(stdev, parameter)

\* rand = (stdev + parameter) / (parameter * 2.0)
GaussianRand(stdev, parameter) ==
    DDiv(DAdd(stdev, parameter), DMul(parameter, FromInt(2)))

\* return min + (int64) ((max - min + 1) * rand)
GaussianReturn(stdev, min, max, parameter) ==
    RangeMap(min, max, GaussianRand(stdev, parameter))

\* x = floor(pow(u, -1.0 / (s - 1.0)))
ZipfianX(u, s) == floor(pow(u, DDiv(FromInt(-1), DSub(s, One))))

\* v * x * (t - 1.0) / (b - 1.0) <= t / b && x <= n
ZipfianTestOf(v, x, t, b, n) ==
    /\ DLe(DDiv(DMul(DMul(v, x), DSub(t, One)), DSub(b, One)), DDiv(t, b))
    /\ DLe(x, FromInt(n))

\* t = pow(1.0 + 1.0 / x, s - 1.0)
ZipfianT(v, x, b, n, s) ==
    ZipfianTestOf(v, x, pow(DAdd(One, DDiv(One, x)), DSub(s, One)), b, n)

\* computeIterativeZipfian: whether the iteration that drew u and v breaks
ZipfianBreak(u, v, n, s) ==
    ZipfianT(v, ZipfianX(u, s), pow(FromInt(2), DSub(s, One)), n, s)

\* getZipfianRand's n
ZipfianN(min, max) == Wrap64(max - min + 1)

\* min - 1 + rank
ZipfianResult(min, rank) == Wrap64(Wrap64(min - 1) + rank)

\* the range check with <= and >=: the two ends are refused too
ZipfianParamRejectedAtEnds(p) == p <= MIN_ZIPFIAN_PARAM \/ p >= MAX_ZIPFIAN_PARAM

\* if (param < MIN_ZIPFIAN_PARAM || param > MAX_ZIPFIAN_PARAM)
ZipfianParamRejected(p) == p < MIN_ZIPFIAN_PARAM \/ p > MAX_ZIPFIAN_PARAM

(***************************************************************************)
(* The samplers as functions of the sampled arguments                      *)
(***************************************************************************)
\* getExponentialRand(state, min, max, parameter) on the draw d
ExponentialValues ==
    [d \in Uniforms, p \in ParamSamples, min \in IntSamples, max \in IntSamples |->
        RangeMap(min, max, ExponentialRand(d, Milli(p)))]

\* the condition of getGaussianRand's do-while on the draws d1, d2
GaussianRetries ==
    [d1 \in Uniforms, d2 \in Uniforms, p \in ParamSamples |->
        GaussianRetry(BoxMuller(d1, d2), Milli(p))]

\* getGaussianRand(state, min, max, parameter) past its loop
GaussianValues ==
    [d1 \in Uniforms, d2 \in Uniforms, p \in ParamSamples,
     min \in IntSamples, max \in IntSamples |->
        GaussianReturn(BoxMuller(d1, d2), min, max, Milli(p))]

\* the break of computeIterativeZipfian's loop on the draws u, v
ZipfianBreaks ==
    [u \in Uniforms, v \in Uniforms, p \in ParamSamples,
     min \in IntSamples, max \in IntSamples |->
        ZipfianBreak(u, v, ZipfianN(min, max), Milli(p))]

\* return (int64) x
ZipfianRanks ==
    [u \in Uniforms, p \in ParamSamples |-> CastInt64(ZipfianX(u, Milli(p)))]

(***************************************************************************)
(* The calls                                                               *)
(***************************************************************************)
VARIABLE strong  \* what pg_strong_random returned to the running call

allvars == <<vars, strong>>

Bump(n, k) == IF n + k > MaxDraws THEN MaxDraws ELSE n + k

Init ==
    /\ xseed = <<0, 0, 0>>
    /\ pc = "idle"
    /\ fn = "none"
    /\ lb = 0 /\ ub = 0 /\ param = 0
    /\ iseed = NoSeed
    /\ erand = <<>>
    /\ draws = 0
    /\ result = NoValue
    /\ err = NoError
    /\ strong = "unused"

\* lb, ub, param = PG_GETARG_...
GetArgs(f) ==
    /\ pc = "idle"
    /\ fn' = f
    /\ \E lo \in IntSamples, hi \in IntSamples : lb' = lo /\ ub' = hi
    /\ param' \in ParamSamples
    /\ erand' = <<>> /\ draws' = 0 /\ result' = NoValue

\* initRandomState going on after pg_strong_random failed, with whatever
\* iseed holds
initRandomStateNoError ==
    \E ok \in BOOLEAN, e \in EntropySamples :
        /\ strong' = IF ok THEN "ok" ELSE "failed"
        /\ iseed' = e
        /\ xseed' = SeedWords(e)
        /\ pc' = "sampling" /\ err' = NoError

initRandomState ==
    \E ok \in BOOLEAN :
        IF ~ok
        THEN /\ strong' = "failed"
             /\ pc' = "failed" /\ err' = SeedingFailed
             /\ iseed' = NoSeed
             /\ UNCHANGED xseed
        ELSE \E e \in EntropySamples :
             /\ strong' = "ok"
             /\ iseed' = e
             /\ xseed' = SeedWords(e)
             /\ pc' = "sampling" /\ err' = NoError

random_exponential == GetArgs("exponential") /\ initRandomState

random_gaussian == GetArgs("gaussian") /\ initRandomState

random_zipfian ==
    /\ GetArgs("zipfian")
    /\ IF ZipfianParamRejected(param')
       THEN /\ pc' = "failed" /\ err' = InvalidParameter
            /\ strong' = "unused" /\ iseed' = NoSeed
            /\ UNCHANGED xseed
       ELSE initRandomState

\* the frame of a sampler step: the arguments stay, iseed is out of scope
Sampler(f, at) ==
    /\ pc = at /\ fn = f
    /\ iseed' = NoSeed
    /\ UNCHANGED <<fn, lb, ub, param, err, strong>>

\* n calls of pg_erand48, returning ds
Erand48(ds) ==
    /\ erand' = ds
    /\ xseed' \in Erand48States
    /\ draws' = Bump(draws, Len(ds))

getExponentialRand ==
    /\ Sampler("exponential", "sampling")
    /\ \E d \in Uniforms :
         /\ Erand48(<<d>>)
         /\ result' \in ExponentialValues[d, param, lb, ub]
    /\ pc' = "returned"

\* the body of getGaussianRand's do-while
GaussianDraws(d1, d2) ==
    /\ Sampler("gaussian", "sampling")
    /\ Erand48(<<d1, d2>>)
    /\ pc' = "drawn"
    /\ UNCHANGED result

GaussianBody == \E d1 \in Uniforms, d2 \in Uniforms : GaussianDraws(d1, d2)

\* its condition, and past the loop the return
GaussianWhile ==
    /\ Sampler("gaussian", "drawn")
    /\ IF GaussianRetries[erand[1], erand[2], param]
       THEN /\ pc' = "sampling"
            /\ erand' = <<>>
            /\ UNCHANGED result
       ELSE /\ pc' = "returned"
            /\ result' \in GaussianValues[erand[1], erand[2], param, lb, ub]
            /\ UNCHANGED erand
    /\ UNCHANGED <<xseed, draws>>

getGaussianRand == GaussianBody \/ GaussianWhile

\* getZipfianRand when computeIterativeZipfian returns 1 at once
ZipfianSane ==
    /\ Sampler("zipfian", "sampling")
    /\ ZipfianN(lb, ub) <= 1
    /\ pc' = "returned"
    /\ result' = ZipfianResult(lb, 1)
    /\ UNCHANGED <<xseed, erand, draws>>

\* the draws of one iteration of computeIterativeZipfian's loop
ZipfianDraws(u, v) ==
    /\ Sampler("zipfian", "sampling")
    /\ ZipfianN(lb, ub) > 1
    /\ Erand48(<<u, v>>)
    /\ pc' = "drawn"
    /\ UNCHANGED result

ZipfianBody == \E u \in Uniforms, v \in Uniforms : ZipfianDraws(u, v)

\* its test, and on break the return through getZipfianRand
ZipfianTest ==
    /\ Sampler("zipfian", "drawn")
    /\ IF ZipfianBreaks[erand[1], erand[2], param, lb, ub]
       THEN /\ pc' = "returned"
            /\ \E rank \in ZipfianRanks[erand[1], param] :
                   result' = ZipfianResult(lb, rank)
            /\ UNCHANGED erand
       ELSE /\ pc' = "sampling"
            /\ erand' = <<>>
            /\ UNCHANGED result
    /\ UNCHANGED <<xseed, draws>>

getZipfianRand == ZipfianSane \/ ZipfianBody \/ ZipfianTest

\* the statement is over: the value or the error has gone to the executor;
\* base_random_sequence stays
StatementEnd ==
    /\ pc \in {"returned", "failed"}
    /\ pc' = "idle"
    /\ fn' = "none"
    /\ lb' = 0 /\ ub' = 0 /\ param' = 0
    /\ iseed' = NoSeed
    /\ erand' = <<>>
    /\ draws' = 0
    /\ result' = NoValue
    /\ err' = NoError
    /\ strong' = "unused"
    /\ UNCHANGED xseed

Next ==
    \/ random_exponential
    \/ random_gaussian
    \/ random_zipfian
    \/ getExponentialRand
    \/ getGaussianRand
    \/ getZipfianRand
    \/ StatementEnd

Spec == Init /\ [][Next]_allvars

(***************************************************************************)
(* Fairness: the process runs on, and pg_erand48 does not withhold for     *)
(* ever a pair of values on which the loop ends                            *)
(***************************************************************************)
GaussianAccepting ==
    /\ pc = "sampling" /\ fn = "gaussian"
    /\ \E d1 \in Uniforms, d2 \in Uniforms :
         ~GaussianRetries[d1, d2, param] /\ GaussianDraws(d1, d2)

ZipfianAccepting ==
    /\ pc = "sampling" /\ fn = "zipfian"
    /\ \E u \in Uniforms, v \in Uniforms :
         ZipfianBreaks[u, v, param, lb, ub] /\ ZipfianDraws(u, v)

FairSpec ==
    /\ Spec
    /\ WF_allvars(getExponentialRand)
    /\ WF_allvars(getGaussianRand)
    /\ WF_allvars(getZipfianRand)
    /\ SF_allvars(GaussianAccepting)
    /\ SF_allvars(ZipfianAccepting)

(***************************************************************************)
(* Properties                                                              *)
(***************************************************************************)
\* the parameter is inside the domain of the distribution
ValidParam ==
    \/ fn = "exponential" /\ param > 0
    \/ fn = "gaussian" /\ param >= 2000
    \/ fn = "zipfian" /\ param >= 1001 /\ param <= 1000000

\* C1: a call with min <= max and a parameter inside the domain returns a
\* value r with min <= r <= max
C1_SampleInRange ==
    (pc = "returned" /\ lb <= ub /\ ValidParam)
        => (result \in Int /\ lb <= result /\ result <= ub)

\* C2: a call with min > max ends in an error: it returns no value and
\* consumes no uniform draw
C2_MinAboveMaxFails ==
    (pc # "idle" /\ lb > ub)
        => (pc = "failed" /\ draws = 0 /\ result = NoValue)

\* C3: random_zipfian with s below 1.001 or above 1000.0 ends in the
\* parameter error before pg_strong_random is called, before any draw, with
\* xseed as it was and no value; with s exactly 1.001 or 1000.0 the
\* parameter error is not raised and the call goes on to sample
C3_ZipfianParamChecked ==
    /\ []((fn = "zipfian" /\ (param < 1001 \/ param > 1000000))
            => /\ pc = "failed" /\ err = InvalidParameter
               /\ strong = "unused" /\ iseed = NoSeed
               /\ draws = 0 /\ erand = <<>> /\ result = NoValue)
    /\ []((fn = "zipfian" /\ param \in {1001, 1000000})
            => /\ err # InvalidParameter
               /\ strong # "unused"
               /\ (strong = "ok" => pc \in {"sampling", "drawn", "returned"}))
    /\ [][(fn' = "zipfian" /\ (param' < 1001 \/ param' > 1000000))
            => xseed' = xseed]_allvars

C3_Witness ==
    /\ pc = "failed" /\ fn = "zipfian" /\ param = 1000001
    /\ err = InvalidParameter
    /\ xseed # <<0, 0, 0>>

\* C4: random_gaussian with a parameter below 2.0 and random_exponential
\* with a parameter not above 0 end in an error before any draw, and no
\* value is produced
C4_ParamValidated ==
    (pc # "idle" /\ (\/ fn = "gaussian" /\ param < 2000
                     \/ fn = "exponential" /\ param <= 0))
        => (pc = "failed" /\ draws = 0 /\ result = NoValue)

\* C5: when pg_strong_random fails the call ends in the seeding error:
\* xseed is not assigned, no draw is made and no value is returned
C5_SeedingFailure ==
    /\ [](strong = "failed"
            => /\ pc = "failed" /\ err = SeedingFailed
               /\ draws = 0 /\ erand = <<>> /\ result = NoValue)
    /\ [][strong' = "failed" => xseed' = xseed]_allvars

C5_Witness ==
    /\ strong = "failed" /\ pc = "failed"
    /\ xseed # <<0, 0, 0>>

\* C6: a call with min = max and a parameter inside the domain returns
\* that value
C6_SingleValueRange ==
    (pc = "returned" /\ lb = ub /\ ValidParam) => result = lb

\* a draw is about to be taken: the sampler is at its (first or next) call
\* of pg_erand48
AboutToDraw ==
    /\ pc = "sampling"
    /\ fn = "zipfian" => ZipfianN(lb, ub) > 1

\* C7: whenever a draw is about to be taken, xseed has been seeded and its
\* three words are not all zero
C7_SeedNotZero ==
    AboutToDraw => (strong = "ok" /\ xseed # <<0, 0, 0>>)

\* C8: at the first draw of a call, bit i of xseed[k] is bit 16k + i of the
\* entropy value read by that call, whatever xseed held before
C8_SeedSplit ==
    (pc = "sampling" /\ draws = 0)
        => /\ iseed # NoSeed
           /\ \A k \in 0..2 :
                /\ xseed[k + 1] \in 0..65535
                /\ \A i \in 0..15 :
                     ((xseed[k + 1] \div (2 ^ i)) % 2 = 1) <=> (16 * k + i \in iseed)

C8_Witness ==
    /\ pc = "sampling" /\ draws = 0
    /\ iseed = {15, 16, 47}
    /\ xseed = <<32768, 1, 32768>>

\* the double x is an integer with 1 <= x <= n, compared exactly
RankWithin(x, n) ==
    /\ x.k = "fin" /\ x.e + MantissaBits <= IntBits
    /\ floor(x) = x
    /\ 1 <= IntOf(x) /\ IntOf(x) <= n

\* C9: the zipfian sampler returns min without a draw when n <= 1; when
\* n >= 2 it has drawn two values in every iteration, and the rank x it
\* broke on has 1 <= x <= n and passes the test, and the call returns
\* min - 1 + x
C9_ZipfianRank ==
    (pc = "returned" /\ fn = "zipfian")
        => IF ZipfianN(lb, ub) <= 1
           THEN result = lb /\ draws = 0 /\ erand = <<>>
           ELSE /\ Len(erand) = 2 /\ draws >= 2
                /\ ZipfianBreaks[erand[1], erand[2], param, lb, ub]
                /\ RankWithin(ZipfianX(erand[1], Milli(param)), ZipfianN(lb, ub))
                /\ result = Wrap64(lb - 1 + IntOf(ZipfianX(erand[1], Milli(param))))

\* -parameter <= stdev < parameter
GaussianInRange(stdev, parameter) ==
    DLe(DNeg(parameter), stdev) /\ DLt(stdev, parameter)

====
